---------------------------- MODULE Spec2Model ----------------------------
(***************************************************************************)
(* Model of src/notInAlbumn-extended.py: the sequential pagination over    *)
(* the remote photo service (get_all_photos, get_album_item_ids), the      *)
(* orphan selection (get_items_no_album), the validate-then-move workflow  *)
(* (get_and_move_items_no_album) and find_album.                           *)
(*                                                                         *)
(* The remote service is the environment.  Its answer to a request is      *)
(* drawn from a bounded set when the request is issued.  The album listing *)
(* is static during a run: it remembers the page it served last            *)
(* (page_served) until the run has moved past that page, so a token that   *)
(* is requested again is answered by the same page.  Every request may     *)
(* also fail (an exception raised by .execute()).                          *)
(*                                                                         *)
(* The histories memberIds, memberCount, albumListCalls, listed,           *)
(* scanned_resp and token_resp observe get_album_item_ids and find_album   *)
(* when one of them is the called function (Observed); lookups and adds    *)
(* observe the validation and move loops.                                  *)
(***************************************************************************)
EXTENDS Integers, Sequences, FiniteSets

VARIABLES
    op,                 \* the function that was called
    batch_size,         \* its batch_size argument, once the code has read it
    album_name,         \* find_album's album_name argument
    pc,                 \* position in the called function
    error,              \* the exception that left the function ("" if none)
    ret,                \* the returned value (when pc = "done")
    \* ---- the remote service, as far as it has answered
    library,            \* every media item the photo listing has served, in order
    page_served,        \* the album-list page served last: <<[albums, next]>>, or <<>>
    listed,             \* every album the album listing has served, in order
    memberIds,          \* ids of every member item the album searches served
    memberCount,        \* number of member items the album searches served
    target_album,       \* ids added to the target album by successful batch-adds
    \* ---- get_all_photos
    all_photos,
    photos_page_token,
    \* ---- get_album_item_ids
    album_item_ids,
    albums_page_token,  \* page_token of the outer loop
    albums,             \* the albums of the page being scanned
    album_i,            \* position of the for loop in albums
    album_page_token,   \* the inner loop's token
    scanned_resp,       \* number of the album-list request whose albums are scanned
    token_resp,         \* number of the album-list request the followed token came from
    \* ---- get_items_no_album / get_and_move_items_no_album
    no_album_photos,
    photos_to_move,
    valid_ids,
    media_i,            \* position of the validation loop in photos_to_move
    valid_i,            \* position of the move loop in valid_ids
    \* ---- the requests issued (history)
    albumListCalls,     \* pageToken of every albums().list request, in order
    lookups,            \* <<[id, outcome]>> of every mediaItems().get request
    adds                \* <<[ids, ok]>> of every albums().batchAddMediaItems request

vars == <<op, batch_size, album_name, pc, error, ret, library, page_served, listed,
          memberIds, memberCount, target_album, all_photos, photos_page_token,
          album_item_ids, albums_page_token, albums, album_i, album_page_token,
          scanned_resp, token_resp, no_album_photos, photos_to_move, valid_ids,
          media_i, valid_i, albumListCalls, lookups, adds>>

---------------------------------------------------------------------------
(* Bounds of the model *)

\* media items the photo listing holds
MaxPhotos == 3
\* pages of one listing (photos, albums, one album's members)
MaxPages == 2
\* albums in one page of the album listing
MaxAlbums == 2
\* member items in one page of an album search
MaxMembers == 1
\* batch_size ranges over -MaxPhotos .. MaxPhotos
BatchSizes == (0 - MaxPhotos)..MaxPhotos

---------------------------------------------------------------------------
(* Values *)

\* page_token = None: the first page is requested.  The token of page k > 1 is k.
NoToken == 0

\* batch_size before the code has read it: the argument is first read by the
\* slice of line 111 / 126, and its value is drawn there
NotRead == "not read"

\* "image/", as the tokens of the string
ImagePrefix == <<"image", "/">>

\* s.startswith(prefix)
StartsWith(s, prefix) ==
    /\ Len(s) >= Len(prefix)
    /\ SubSeq(s, 1, Len(prefix)) = prefix

\* s[:n] of Python: the first n elements, a negative n counted from the end
PySlice(s, n) ==
    IF n >= 0
    THEN SubSeq(s, 1, IF n < Len(s) THEN n ELSE Len(s))
    ELSE SubSeq(s, 1, IF Len(s) + n > 0 THEN Len(s) + n ELSE 0)

\* The media items the service can hold at position i of the library: a dict
\* with the keys it carries (DOMAIN item is the dict's key set).  Ids are
\* unique: the item at position i has id i, or no id.
Shapes == {"photo", "video", "nomime", "nofilename", "noid", "notprefix"}

MkItem(i, shape) ==
    CASE shape = "photo"      -> [id |-> i, filename |-> "IMG", mimeType |-> <<"image", "/", "jpeg">>]
      [] shape = "video"      -> [id |-> i, filename |-> "MOV", mimeType |-> <<"video", "/", "mp4">>]
      [] shape = "nomime"     -> [id |-> i, filename |-> "IMG"]
      [] shape = "nofilename" -> [id |-> i, mimeType |-> <<"image", "/", "jpeg">>]
      [] shape = "noid"       -> [filename |-> "IMG", mimeType |-> <<"image", "/", "jpeg">>]
      [] shape = "notprefix"  -> [id |-> i, filename |-> "IMG", mimeType |-> <<"x", "image", "/">>]

\* the shapes drawn when `o` is the called function
ShapesOf(o) ==
    IF o = "get_all_photos" THEN Shapes ELSE {"photo", "noid"}

\* the pages the photo listing can serve after `base` items
PhotoPages(base, o) ==
    UNION { { [j \in 1..k |-> MkItem(base + j, sh[j])] : sh \in [1..k -> ShapesOf(o)] }
            : k \in 0..(MaxPhotos - base) }

\* the member items an album search can serve; the last one carries no id
MemberItems == { [id |-> k] : k \in 1..MaxPhotos } \cup { [filename |-> "IMG"] }

MemberPages ==
    UNION { [1..k -> MemberItems] : k \in 0..MaxMembers }

\* album titles; every album carries an id and a title (lines 74, 199 read
\* them unguarded)
Titles == {"Vacation", "vacation", "Trip"}

TitlesOf(o) == IF o = "find_album" THEN Titles ELSE {"Trip"}

\* whether the service may announce a further page after page p
MoreChoices(p) == IF p < MaxPages THEN BOOLEAN ELSE {FALSE}

PageOf(token) == IF token = NoToken THEN 1 ELSE token

TokenAfter(token, more) == IF more THEN PageOf(token) + 1 ELSE NoToken

\* the answers of albums().list for page p: the page served last when it is
\* requested again, or a new page, whose albums are <<p, 1>>, <<p, 2>>, ...
AlbumListResponses(p) ==
    IF page_served # <<>>
    THEN { page_served[1] }
    ELSE UNION { { [albums |-> [j \in 1..k |-> [id |-> <<p, j>>, title |-> t[j]]],
                    next |-> more] :
                     t \in [1..k -> TitlesOf(op)], more \in MoreChoices(p) }
                 : k \in 0..MaxAlbums }

\* the histories of the album functions are kept when one of them is called
Observed == op \in {"get_album_item_ids", "find_album"}

Observe(history, now) == IF Observed THEN now ELSE history

---------------------------------------------------------------------------
(* The pure steps of the code *)

\* line 51: the filter of one page
IsPhoto(item) ==
    /\ "mimeType" \in DOMAIN item
    /\ StartsWith(item.mimeType, ImagePrefix)
    /\ "filename" \in DOMAIN item

FilterPhotos(media_items) == SelectSeq(media_items, IsPhoto)

\* faulty variant of UpdateIds: the set is assigned, not updated
UpdateIdsAssigns(ids, items) ==
    { items[j].id : j \in { n \in DOMAIN items : "id" \in DOMAIN items[n] } }

\* line 85: album_item_ids.update(item['id'] for item in items if 'id' in item)
UpdateIds(ids, items) ==
    ids \cup { items[j].id : j \in { n \in DOMAIN items : "id" \in DOMAIN items[n] } }

\* lines 108, 123: photo['id'] raises KeyError for a photo without the key
RaisesKeyError(photos) ==
    \E j \in DOMAIN photos : "id" \notin DOMAIN photos[j]

\* lines 108, 123: [photo for photo in all_photos if photo['id'] not in album_item_ids]
NotInAlbum(photo, ids) == photo.id \notin ids

\* faulty variant of NoAlbumPhotos: the test lacks its `not`
NoAlbumPhotosInverted(photos, ids) ==
    SelectSeq(photos, LAMBDA photo : ~NotInAlbum(photo, ids))

NoAlbumPhotos(photos, ids) ==
    SelectSeq(photos, LAMBDA photo : NotInAlbum(photo, ids))

\* faulty variant of LookupAccepted: the answer is not tested, any answer counts
LookupAcceptedUntested(outcome) == outcome \in {"item", "empty"}

\* lines 143-147: `if media_item:` of the lookup's answer
LookupAccepted(outcome) == outcome = "item"

\* faulty variant of BatchBody: the whole list is sent with every call
BatchBodyWholeList(ids, i) == ids

\* line 155: body={"mediaItemIds": [valid_id]}
BatchBody(ids, i) == <<ids[i]>>

Lower(title) == IF title = "Vacation" THEN "vacation" ELSE title

\* faulty variant of TitleMatches: the titles are compared without case
TitleMatchesAnyCase(title, name) == Lower(title) = Lower(name)

\* line 199: album['title'] == album_name
TitleMatches(title, name) == title = name

\* lines 198-200: the first album of the page whose title matches, as <<album>>,
\* or <<>> when the loop ends without a return
FirstMatch(page, name) ==
    LET hits == { j \in DOMAIN page : TitleMatches(page[j].title, name) } IN
    IF hits = {} THEN <<>>
    ELSE <<page[CHOOSE j \in hits : \A h \in hits : j <= h]>>

\* faulty variant of AfterRequestError: the exception is swallowed and the
\* function goes on with what it has
AfterRequestErrorSwallowed(continue_at) == continue_at

\* an exception of .execute() in the enumerations is not caught: it leaves the
\* function (lines 43-47, 70, 79-83, 93, 197)
AfterRequestError(continue_at) == "raised"

\* an exception in the validation and move loops is caught (lines 148, 157)
AfterCaughtError(continue_at) == continue_at

---------------------------------------------------------------------------
(* Initial state: a call of one of the functions *)

Ops == {"get_all_photos", "get_album_item_ids", "get_items_no_album",
        "get_and_move_items_no_album", "find_album"}

FirstPc(o) ==
    CASE o \in {"get_all_photos", "get_items_no_album", "get_and_move_items_no_album"}
              -> "photos_list"
      [] o = "get_album_item_ids" -> "albums_list"
      [] o = "find_album" -> "find_list"

Init ==
    /\ op \in Ops
    /\ batch_size = NotRead
    /\ album_name \in IF op = "find_album" THEN {"Vacation", "Album"} ELSE {""}
    /\ pc = FirstPc(op)
    /\ error = ""
    /\ ret = <<>>
    /\ library = <<>>
    /\ page_served = <<>>
    /\ listed = <<>>
    /\ memberIds = {}
    /\ memberCount = 0
    /\ target_album = {}
    /\ all_photos = <<>>
    /\ photos_page_token = NoToken
    /\ album_item_ids = {}
    /\ albums_page_token = NoToken
    /\ albums = <<>>
    /\ album_i = 0
    /\ album_page_token = NoToken
    /\ scanned_resp = 0
    /\ token_resp = 0
    /\ no_album_photos = <<>>
    /\ photos_to_move = <<>>
    /\ valid_ids = <<>>
    /\ media_i = 0
    /\ valid_i = 0
    /\ albumListCalls = <<>>
    /\ lookups = <<>>
    /\ adds = <<>>

photoVars == <<all_photos, photos_page_token, library>>
albumVars == <<album_item_ids, albums_page_token, albums, album_i, album_page_token,
               scanned_resp, token_resp, page_served, listed, memberIds, memberCount,
               albumListCalls>>
moveVars == <<no_album_photos, photos_to_move, valid_ids, media_i, valid_i, lookups,
              adds, target_album>>
argVars == <<op, batch_size, album_name>>

---------------------------------------------------------------------------
(* get_all_photos, lines 35-61: one iteration of the while loop *)

PhotosFail ==
    /\ pc = "photos_list"
    /\ pc' = AfterRequestError(IF op = "get_all_photos" THEN "done" ELSE "albums_list")
    /\ error' = "HttpError"
    /\ UNCHANGED <<ret, photoVars, albumVars, moveVars, argVars>>

PhotosPage ==
    /\ pc = "photos_list"
    /\ \E media_items \in PhotoPages(Len(library), op),
          more \in MoreChoices(PageOf(photos_page_token)) :
          /\ library' = library \o media_items
          /\ all_photos' = all_photos \o FilterPhotos(media_items)
          /\ photos_page_token' = TokenAfter(photos_page_token, more)
          /\ IF more
             THEN pc' = "photos_list" /\ ret' = ret
             ELSE IF op = "get_all_photos"
                  THEN pc' = "done" /\ ret' = all_photos'
                  ELSE pc' = "albums_list" /\ ret' = ret
    /\ UNCHANGED <<error, albumVars, moveVars, argVars>>

---------------------------------------------------------------------------
(* get_album_item_ids, lines 63-97 *)

AfterAlbums == IF op = "get_album_item_ids" THEN "done" ELSE "select"

AlbumsFail ==
    /\ pc \in {"albums_list", "album_search", "albums_next"}
    /\ pc' = AfterRequestError(AfterAlbums)
    /\ error' = "HttpError"
    /\ UNCHANGED <<ret, photoVars, albumVars, moveVars, argVars>>

\* line 70: the albums of the page, then lines 73-75 for its first album
AlbumsList ==
    /\ pc = "albums_list"
    /\ \E r \in AlbumListResponses(PageOf(albums_page_token)) :
          /\ page_served' = <<r>>
          /\ listed' = Observe(listed, listed \o r.albums)
          /\ albumListCalls' = Observe(albumListCalls,
                                       Append(albumListCalls, albums_page_token))
          /\ scanned_resp' = Observe(scanned_resp, Len(albumListCalls) + 1)
          /\ albums' = r.albums
          /\ album_i' = 1
          /\ album_page_token' = NoToken
          /\ pc' = IF r.albums = <<>> THEN "albums_next" ELSE "album_search"
    /\ UNCHANGED <<error, ret, photoVars, album_item_ids, albums_page_token, token_resp,
                   memberIds, memberCount, moveVars, argVars>>

\* lines 77-90: one search request for albums[album_i], and the step to the
\* next album (lines 73-75) when its last page was read
AlbumSearch ==
    /\ pc = "album_search"
    /\ \E items \in MemberPages, more \in MoreChoices(PageOf(album_page_token)) :
          /\ album_item_ids' = UpdateIds(album_item_ids, items)
          /\ memberIds' = Observe(memberIds, memberIds \cup
                 { items[j].id : j \in { n \in DOMAIN items : DOMAIN items[n] = {"id"} } })
          /\ memberCount' = Observe(memberCount, memberCount + Len(items))
          /\ album_page_token' = TokenAfter(album_page_token, more)
          /\ IF more
             THEN pc' = "album_search" /\ album_i' = album_i
             ELSE IF album_i < Len(albums)
                  THEN pc' = "album_search" /\ album_i' = album_i + 1
                  ELSE pc' = "albums_next" /\ album_i' = album_i
    /\ UNCHANGED <<error, ret, photoVars, albums_page_token, albums, scanned_resp,
                   token_resp, page_served, listed, albumListCalls, moveVars, argVars>>

\* lines 93-97: the page is requested again for its nextPageToken; when the
\* loop ends the function returns and its locals are gone
AlbumsNext ==
    /\ pc = "albums_next"
    /\ \E r \in AlbumListResponses(PageOf(albums_page_token)) :
          /\ page_served' = <<>>
          /\ albumListCalls' = Observe(albumListCalls,
                                       Append(albumListCalls, albums_page_token))
          /\ token_resp' = Observe(token_resp, Len(albumListCalls) + 1)
          /\ albums_page_token' = TokenAfter(albums_page_token, r.next)
          /\ IF r.next
             THEN pc' = "albums_list" /\ ret' = ret
             ELSE /\ pc' = AfterAlbums
                  /\ ret' = IF op = "get_album_item_ids" THEN album_item_ids ELSE ret
          /\ IF r.next
             THEN UNCHANGED <<albums, album_i>>
             ELSE albums' = <<>> /\ album_i' = 0
    /\ UNCHANGED <<error, photoVars, album_item_ids, album_page_token, listed,
                   scanned_resp, memberIds, memberCount, moveVars, argVars>>

---------------------------------------------------------------------------
(* get_items_no_album, lines 107-111; get_and_move_items_no_album, lines 122-135 *)

SelectKeyError ==
    /\ pc = "select"
    /\ RaisesKeyError(all_photos)
    /\ pc' = "raised"
    /\ error' = "KeyError"
    /\ UNCHANGED <<ret, photoVars, albumVars, moveVars, argVars>>

Select ==
    /\ pc = "select"
    /\ ~RaisesKeyError(all_photos)
    /\ batch_size' \in BatchSizes
    /\ no_album_photos' = NoAlbumPhotos(all_photos, album_item_ids)
    /\ photos_to_move' = PySlice(no_album_photos', batch_size')
    /\ IF op = "get_and_move_items_no_album" /\ photos_to_move' # <<>>
       THEN pc' = "validate" /\ media_i' = 1 /\ ret' = ret
       ELSE pc' = "done" /\ media_i' = media_i /\ ret' = photos_to_move'
    /\ UNCHANGED <<error, photoVars, albumVars, valid_ids, valid_i, lookups, adds,
                   target_album, op, album_name>>

\* lines 139-149: one iteration of the validation loop, then lines 151-164
Validate ==
    /\ pc = "validate"
    /\ LET media_id == photos_to_move[media_i].id IN
       \E outcome \in {"item", "empty", "error"} :
          /\ lookups' = Append(lookups, [id |-> media_id, outcome |-> outcome])
          /\ valid_ids' = IF outcome # "error" /\ LookupAccepted(outcome)
                          THEN Append(valid_ids, media_id) ELSE valid_ids
          /\ LET continue_at == IF media_i < Len(photos_to_move) THEN "validate"
                                ELSE IF valid_ids' # <<>> THEN "move" ELSE "done" IN
             pc' = IF outcome = "error" THEN AfterCaughtError(continue_at) ELSE continue_at
          /\ error' = IF pc' = "raised" THEN "HttpError" ELSE error
          /\ media_i' = IF pc' = "validate" THEN media_i + 1 ELSE media_i
          /\ valid_i' = IF pc' = "move" THEN 1 ELSE valid_i
          /\ ret' = IF pc' = "done" THEN photos_to_move ELSE ret
    /\ UNCHANGED <<photoVars, albumVars, no_album_photos, photos_to_move, adds,
                   target_album, argVars>>

\* lines 153-158: one iteration of the move loop, then line 164
Move ==
    /\ pc = "move"
    /\ \E ok \in BOOLEAN :
          /\ adds' = Append(adds, [ids |-> BatchBody(valid_ids, valid_i), ok |-> ok])
          /\ target_album' = IF ok
                             THEN target_album \cup
                                  { BatchBody(valid_ids, valid_i)[j] :
                                      j \in DOMAIN BatchBody(valid_ids, valid_i) }
                             ELSE target_album
          /\ LET continue_at == IF valid_i < Len(valid_ids) THEN "move" ELSE "done" IN
             pc' = IF ok THEN continue_at ELSE AfterCaughtError(continue_at)
          /\ error' = IF pc' = "raised" THEN "HttpError" ELSE error
          /\ valid_i' = IF pc' = "move" THEN valid_i + 1 ELSE valid_i
          /\ ret' = IF pc' = "done" THEN photos_to_move ELSE ret
    /\ UNCHANGED <<photoVars, albumVars, no_album_photos, photos_to_move, valid_ids,
                   media_i, lookups, argVars>>

---------------------------------------------------------------------------
(* find_album, lines 194-204: one iteration of the while loop *)

FindFail ==
    /\ pc = "find_list"
    /\ pc' = AfterRequestError("done")
    /\ error' = "HttpError"
    /\ UNCHANGED <<ret, photoVars, albumVars, moveVars, argVars>>

FindList ==
    /\ pc = "find_list"
    /\ \E r \in AlbumListResponses(PageOf(albums_page_token)) :
          /\ listed' = Observe(listed, listed \o r.albums)
          /\ albumListCalls' = Observe(albumListCalls,
                                       Append(albumListCalls, albums_page_token))
          /\ IF FirstMatch(r.albums, album_name) # <<>>
             THEN /\ pc' = "done"
                  /\ ret' = FirstMatch(r.albums, album_name)
                  /\ albums_page_token' = albums_page_token
             ELSE /\ albums_page_token' = TokenAfter(albums_page_token, r.next)
                  /\ pc' = IF r.next THEN "find_list" ELSE "done"
                  /\ ret' = ret
    /\ UNCHANGED <<error, photoVars, album_item_ids, albums, album_i, album_page_token,
                   scanned_resp, token_resp, page_served, memberIds, memberCount,
                   moveVars, argVars>>

---------------------------------------------------------------------------

Next ==
    \/ PhotosFail
    \/ PhotosPage
    \/ AlbumsFail
    \/ AlbumsList
    \/ AlbumSearch
    \/ AlbumsNext
    \/ SelectKeyError
    \/ Select
    \/ Validate
    \/ Move
    \/ FindFail
    \/ FindList

Spec == Init /\ [][Next]_vars

---------------------------------------------------------------------------
(* Definitions the properties are stated with *)

WorkflowOps == {"get_items_no_album", "get_and_move_items_no_album"}

\* the selection of lines 108-111 / 123-126 has been made
Selected == op \in WorkflowOps /\ pc \in {"validate", "move", "done"}

\* the sequence the orphan resolver produced
Resolved == IF pc = "done" THEN ret ELSE photos_to_move

\* the photos of `photos` whose id is not in `ids`, in the order of `photos`
RECURSIVE OrphansOf(_, _)
OrphansOf(photos, ids) ==
    IF photos = <<>> THEN <<>>
    ELSE (IF Head(photos).id \in ids THEN <<>> ELSE <<Head(photos)>>)
         \o OrphansOf(Tail(photos), ids)

\* the first n elements of s (none for n <= 0)
FirstN(s, n) == [j \in 1..(IF n <= 0 THEN 0 ELSE IF n < Len(s) THEN n ELSE Len(s)) |-> s[j]]

IdsIn(call) == { call.ids[j] : j \in DOMAIN call.ids }

\* the ids whose lookup returned a non-empty item, in lookup order
RECURSIVE ValidatedIds(_)
ValidatedIds(ls) ==
    IF ls = <<>> THEN <<>>
    ELSE (IF Head(ls).outcome = "item" THEN <<Head(ls).id>> ELSE <<>>)
         \o ValidatedIds(Tail(ls))

---------------------------------------------------------------------------
(* C1: whenever the orphan resolver (get_items_no_album, or the selection   *)
(* inside get_and_move_items_no_album) has produced its sequence for a      *)
(* batch_size >= 0, no photo of the sequence has its id in the membership   *)
(* set, the sequence is no longer than batch_size, and when batch_size is   *)
(* at least the number of orphans it is exactly the orphans of all_photos   *)
(* in listing order.                                                        *)
C1_OrphansWithinBatch ==
    (Selected /\ batch_size >= 0) =>
        /\ \A j \in DOMAIN Resolved : Resolved[j].id \notin album_item_ids
        /\ Len(Resolved) <= batch_size
        /\ (batch_size >= Len(OrphansOf(all_photos, album_item_ids))
               => Resolved = OrphansOf(all_photos, album_item_ids))

C1_Witness ==
    /\ op = "get_items_no_album"
    /\ pc = "done"
    /\ batch_size >= Len(ret)
    /\ Len(ret) >= 2
    /\ \E j \in DOMAIN all_photos : all_photos[j].id \in album_item_ids
    /\ ret = OrphansOf(all_photos, album_item_ids)

(* C2: for every batch_size <= 0 the orphan resolver returns the empty      *)
(* sequence, and the move workflow looks up and moves no photo.             *)
C2_NonPositiveBatchIsEmpty ==
    (Selected /\ batch_size <= 0) =>
        /\ Resolved = <<>>
        /\ lookups = <<>>
        /\ adds = <<>>

(* C3: the output of get_all_photos is exactly the served items that carry  *)
(* a mimeType starting with the image prefix, a filename and an id, in      *)
(* service order; so every element of the output has an id.                 *)
C3_OnlyItemsWithIdFilenameImage ==
    (op = "get_all_photos" /\ pc = "done") =>
        /\ ret = SelectSeq(library,
                   LAMBDA item : /\ "mimeType" \in DOMAIN item
                                 /\ StartsWith(item.mimeType, ImagePrefix)
                                 /\ "filename" \in DOMAIN item
                                 /\ "id" \in DOMAIN item)
        /\ \A j \in DOMAIN ret : "id" \in DOMAIN ret[j]

(* C4: in get_and_move_items_no_album, an id whose lookup raised or         *)
(* returned an empty result is in no batch-add call; the lookups follow the *)
(* candidates in order, a lookup failure never leaves the function, and     *)
(* once the validation loop is over every candidate has been looked up.     *)
C4_FailedLookupNeverMoved ==
    op = "get_and_move_items_no_album" =>
        /\ \A i \in DOMAIN lookups : \A j \in DOMAIN adds :
               lookups[i].outcome # "item" => lookups[i].id \notin IdsIn(adds[j])
        /\ Len(lookups) <= Len(photos_to_move)
        /\ \A i \in DOMAIN lookups : lookups[i].id = photos_to_move[i].id
        /\ (pc \in {"move", "done"} => Len(lookups) = Len(photos_to_move))
        /\ (pc = "raised" => lookups = <<>>)

C4_Witness ==
    /\ op = "get_and_move_items_no_album"
    /\ pc = "done"
    /\ Len(lookups) = 3
    /\ lookups[1].outcome = "error"
    /\ lookups[2].outcome = "empty"
    /\ lookups[3].outcome = "item"
    /\ Len(adds) = 1

(* C5: in the move phase the batch-add calls are, in order, one call per    *)
(* validated id carrying exactly that id, whatever the earlier calls'       *)
(* outcomes; when the function returns every validated id has had its       *)
(* call, and a failing call never leaves the function.                      *)
C5_OneAddPerValidatedId ==
    op = "get_and_move_items_no_album" =>
        /\ Len(adds) <= Len(ValidatedIds(lookups))
        /\ \A j \in DOMAIN adds : adds[j].ids = <<ValidatedIds(lookups)[j]>>
        /\ (pc = "done" => Len(adds) = Len(ValidatedIds(lookups)))
        /\ (pc = "raised" => adds = <<>>)

C5_Witness ==
    /\ op = "get_and_move_items_no_album"
    /\ pc = "done"
    /\ Len(adds) = 2
    /\ ~adds[1].ok
    /\ adds[2].ok
    /\ adds[1].ids # adds[2].ids

(* C6: once both enumerations have succeeded, get_and_move_items_no_album   *)
(* returns normally, and what it returns is the first batch_size orphans.   *)
C6_ReturnsFirstBatchOrphans ==
    op = "get_and_move_items_no_album" =>
        /\ (pc = "raised" => error = "HttpError" /\ lookups = <<>> /\ adds = <<>>)
        /\ error # "KeyError"
        /\ (pc = "done" =>
               ret = FirstN(OrphansOf(all_photos, album_item_ids), batch_size))

(* C7: a failing photo-list, album-list or album-search request leaves the  *)
(* called function as an exception: nothing is returned, and no lookup and  *)
(* no batch-add is issued, so the target album is unchanged.                *)
C7_EnumerationErrorAborts ==
    error = "HttpError" =>
        /\ pc = "raised"
        /\ ret = <<>>
        /\ lookups = <<>>
        /\ adds = <<>>
        /\ target_album = {}

C7_Witness ==
    /\ op = "get_and_move_items_no_album"
    /\ pc = "raised"
    /\ error = "HttpError"
    /\ Len(all_photos) >= 2
    /\ album_item_ids # {}

(* C8: get_album_item_ids returns exactly the ids of the member items the   *)
(* searches of all albums served (entries without id skipped), whatever     *)
(* the pages and the order of the albums; the set is no larger than the     *)
(* number of member items.                                                  *)
C8_UnionOfAllAlbums ==
    (op = "get_album_item_ids" /\ pc = "done") =>
        /\ ret = memberIds
        /\ Cardinality(ret) <= memberCount

C8_Witness ==
    /\ op = "get_album_item_ids"
    /\ pc = "done"
    /\ Len(listed) >= 3
    /\ Len(albumListCalls) >= 4
    /\ Cardinality(ret) >= 2
    /\ memberCount > Cardinality(ret) + 1

(* C9: find_album returns the first album in listing order whose title      *)
(* equals album_name exactly, found in the page requested last; it returns  *)
(* None only when no listed album has that title and the last response      *)
(* carried no continuation token.                                           *)
C9_FirstExactMatch ==
    (op = "find_album" /\ pc = "done") =>
        IF ret # <<>>
        THEN /\ ret[1].title = album_name
             /\ \E k \in DOMAIN listed :
                   /\ listed[k] = ret[1]
                   /\ \A j \in 1..(k - 1) : listed[j].title # album_name
             /\ ret[1].id[1] = Len(albumListCalls)
        ELSE /\ \A k \in DOMAIN listed : listed[k].title # album_name
             /\ albums_page_token = NoToken

C9_Witness ==
    /\ op = "find_album"
    /\ pc = "done"
    /\ ret # <<>>
    /\ Len(albumListCalls) = 2
    /\ Len(listed) = 4
    /\ listed[2].title = "vacation"
    /\ listed[3].title = album_name
    /\ listed[4].title = album_name
    /\ ret[1] = listed[3]

(* C10: in get_album_item_ids each album page token is requested once, and  *)
(* the token followed to the next iteration comes from the response whose   *)
(* albums were scanned.                                                     *)
C10_OneListRequestPerPage ==
    op = "get_album_item_ids" =>
        /\ \A i, j \in DOMAIN albumListCalls :
               i # j => albumListCalls[i] # albumListCalls[j]
        /\ (token_resp # 0 => token_resp = scanned_resp)

===========================================================================
